---- MODULE Spec2Model ----
(***************************************************************************)
(* Model of src/postgres_mcp.py: a line-delimited JSON-RPC server that     *)
(* exposes three PostgreSQL tools.  The transport loop (main), the method  *)
(* dispatcher (handle) and the three database gateway operations           *)
(* (query_db, list_tables, describe_table) are modelled as one sequential  *)
(* process; the input stream and the database are the environment.         *)
(*                                                                         *)
(* JSON values are tagged records [type, v]; a JSON object is a function   *)
(* from its keys to JSON values, so a missing key is really missing.       *)
(* Python strings are TLA+ strings; the text of a query is spelled out by  *)
(* Chars so that strip / upper / startswith are computed character by      *)
(* character.  The non-ASCII mark that prefixes the two error texts in the *)
(* source is written "[x]", and the backquotes around the table name in    *)
(* describe_table's not-found text are written as apostrophes.             *)
(***************************************************************************)
EXTENDS Integers, Sequences, FiniteSets, TLC

VARIABLES pc, msg, out, err, nread, conns, nconn, frame, cyc

vars == <<pc, msg, out, err, nread, conns, nconn, frame, cyc>>

\* Number of input lines the environment supplies before end-of-stream.
MaxLines == 2

---------------------------------------------------------------------------
\* JSON values (what json.loads returns)

None == [type |-> "null"]
JNum(n) == [type |-> "number", v |-> n]
JStr(s) == [type |-> "string", v |-> s]
JArr == [type |-> "array", v |-> "[]"]
JObj(f) == [type |-> "object", v |-> f]
NoFields == [k \in {} |-> None]
\* .get() called without its default: a missing key yields None
EmptyDict_no_default == None

EmptyDict == JObj(NoFields)

\* main's local variable msg before its first assignment
Unbound == [type |-> "unbound"]

\* Python type name of a value, as it appears in an AttributeError text
PyType(x) ==
    CASE x.type = "null" -> "NoneType"
      [] x.type = "number" -> "int"
      [] x.type = "string" -> "str"
      [] x.type = "array" -> "list"
      [] x.type = "object" -> "dict"

\* str(x) as used by the f-strings of handle
PyStr(x) ==
    CASE x.type = "null" -> "None"
      [] x.type = "number" -> ToString(x.v)
      [] x.type = "string" -> x.v
      [] x.type = "array" -> "[]"
      [] x.type = "object" -> "{...}"

\* x == "literal" in Python: false for every non-string
PyEq(x, s) == x.type = "string" /\ x.v = s

HasGet(x) == x.type = "object"

\* d.get(key, default) on a dict
get(d, key, default) == IF key \in DOMAIN d.v THEN d.v[key] ELSE default

AttributeError(x, attr) ==
    "'" \o PyType(x) \o "' object has no attribute '" \o attr \o "'"

---------------------------------------------------------------------------
\* Strings: str.strip, str.upper, str.startswith on character sequences

Whitespace == {" ", "\t", "\n"}

UpperMap == ("s" :> "S") @@ ("e" :> "E") @@ ("l" :> "L") @@ ("c" :> "C")
            @@ ("t" :> "T") @@ ("d" :> "D") @@ ("r" :> "R") @@ ("o" :> "O")
            @@ ("p" :> "P") @@ ("x" :> "X")

RECURSIVE lstrip(_)
lstrip(s) == IF s # <<>> /\ Head(s) \in Whitespace THEN lstrip(Tail(s)) ELSE s

RECURSIVE rstrip(_)
rstrip(s) ==
    IF s # <<>> /\ s[Len(s)] \in Whitespace
    THEN rstrip(SubSeq(s, 1, Len(s) - 1))
    ELSE s

strip(s) == rstrip(lstrip(s))

upper(s) == [i \in 1..Len(s) |-> IF s[i] \in DOMAIN UpperMap THEN UpperMap[s[i]] ELSE s[i]]

startswith(s, prefix) ==
    Len(s) >= Len(prefix) /\ SubSeq(s, 1, Len(prefix)) = prefix

SELECT == <<"S", "E", "L", "E", "C", "T">>

\* The characters of each query text the environment may send
Chars ==
    ("" :> <<>>)
    @@ ("  " :> <<" ", " ">>)
    @@ ("SELECT 1" :> <<"S", "E", "L", "E", "C", "T", " ", "1">>)
    @@ (" \tselect 1\n" :> <<" ", "\t", "s", "e", "l", "e", "c", "t", " ", "1", "\n">>)
    @@ ("SELEC" :> <<"S", "E", "L", "E", "C">>)
    @@ ("xSELECT" :> <<"x", "S", "E", "L", "E", "C", "T">>)
    @@ ("drop t" :> <<"d", "r", "o", "p", " ", "t">>)

QueryTexts == DOMAIN Chars

---------------------------------------------------------------------------
\* The input stream: what sys.stdin.readline() can deliver

RequestIds == {1, 2}

IdFields == {NoFields, "id" :> None} \cup {"id" :> JNum(i) : i \in RequestIds}

M(method) == "method" :> JStr(method)
P(params) == "params" :> params
N(name) == "name" :> JStr(name)
A(arguments) == "arguments" :> arguments

\* requests that never reach the tool-call branch
PlainMethods ==
    {"initialize", "tools/list", "notifications/initialized", "resources/list"}

PlainFields ==
    {M(m) : m \in PlainMethods}
    \cup {NoFields, M("initialize") @@ P(JArr), M("tools/list") @@ P(None)}

\* the params of a tools/call request
CallParams ==
    {None, JArr, EmptyDict,
     JObj(N("bogus")), JObj(N("bogus") @@ A(JArr)),
     JObj(N("list_tables")), JObj(N("list_tables") @@ A(JArr)),
     JObj(N("describe_table")), JObj(N("describe_table") @@ A(JArr)),
     JObj(N("describe_table") @@ A(JObj("table_name" :> JStr("users")))),
     JObj(N("describe_table") @@ A(JObj("table_name" :> JNum(7)))),
     JObj(N("query_database")), JObj(N("query_database") @@ A(JArr)),
     JObj(N("query_database") @@ A(EmptyDict)),
     JObj(N("query_database") @@ A(JObj("query" :> JNum(5))))}
    \cup {JObj(N("query_database") @@ A(JObj("query" :> JStr(q)))) : q \in QueryTexts}

CallFields == {M("tools/call")} \cup {M("tools/call") @@ P(p) : p \in CallParams}

\* a tools/call comes without an id or with the first request id
CallIdFields == {NoFields, "id" :> JNum(1)}

Requests ==
    {JObj(i @@ f) : i \in IdFields, f \in PlainFields}
    \cup {JObj(i @@ f) : i \in CallIdFields, f \in CallFields}

\* JSON texts that parse to something other than an object
NonObjects == {None, JNum(5), JStr("hello"), JArr}

Lines ==
    {[kind |-> "blank", value |-> None], [kind |-> "garbage", value |-> None]}
    \cup {[kind |-> "json", value |-> v] : v \in Requests \cup NonObjects}

\* str(e) of the json.JSONDecodeError raised for a garbage line
JSONDecodeError == "Expecting value: line 1 column 1 (char 0)"

---------------------------------------------------------------------------
\* The database: what psycopg2 can answer

\* the rows fetchall() can return (one string stands for one row)
DbRows == {<<>>, <<"a", "b">>}

ConnectError == "connection refused"
ExecuteError == "relation does not exist"

RECURSIVE join(_, _)
join(sep, items) ==
    IF items = <<>> THEN ""
    ELSE IF Len(items) = 1 THEN Head(items)
    ELSE Head(items) \o sep \o join(sep, Tail(items))

\* json.dumps(rows, indent=2): one element per line between brackets
json_dumps(rows) == "[\n  " \o join(",\n  ", rows) \o "\n]"

---------------------------------------------------------------------------
\* Responses

\* send without the setdefault: the response is printed as handle built it
send_as_built(resp) == resp

\* send(): resp.setdefault("jsonrpc", "2.0"), then one line on stdout
send(resp) ==
    IF "jsonrpc" \in DOMAIN resp THEN resp
    ELSE [k \in DOMAIN resp \cup {"jsonrpc"} |->
             IF k = "jsonrpc" THEN "2.0" ELSE resp[k]]

\* log(): one line on stderr
log(m) == "[PG-MCP] " \o m

format_text(text) == [type |-> "text", text |-> text]

\* bool(resp) of a dict: true unless it is empty
truthy(resp) == DOMAIN resp # {}

InitializeResult ==
    [protocolVersion |-> "2024-11-05",
     capabilities |-> {"tools", "resources", "prompts"},
     serverInfo |-> [name |-> "postgres-mcp", version |-> "1.0.0"]]

ToolCatalog ==
    << [name |-> "query_database", description |-> "Execute SELECT query",
        required |-> <<"query">>],
       [name |-> "list_tables", description |-> "List PostgreSQL tables",
        required |-> <<>>],
       [name |-> "describe_table", description |-> "Describe a table",
        required |-> <<"table_name">>] >>

METHOD_NOT_FOUND == -32601
SERVER_ERROR == -32000

---------------------------------------------------------------------------
\* Outcomes of a call: a returned value, an exception, or a pending
\* database connection (the call goes on in GetConn and Execute)

Return(resp) == [k |-> "return", resp |-> resp]
ReturnNone == [k |-> "none"]
Raise(e) == [k |-> "raise", e |-> e]
Text(text) == [k |-> "text", text |-> text]
Connect(op, arg) == [k |-> "connect", op |-> op, arg |-> arg]

---------------------------------------------------------------------------
\* Database gateway

OnlySelect == "[x] Error: Only SELECT allowed."

\* query_db_rejects with a substring test: "SELECT" not in query.upper()
query_db_rejects_substring(query) ==
    ~\E i \in 1..Len(Chars[query]) :
        startswith(SubSeq(upper(Chars[query]), i, Len(Chars[query])), SELECT)

\* line 42: not query.strip().upper().startswith("SELECT")
query_db_rejects(query) == ~startswith(upper(strip(Chars[query])), SELECT)

\* query_db up to get_conn(); query.strip() is evaluated outside the try
query_db(query) ==
    IF query.type # "string" THEN Raise(AttributeError(query, "strip"))
    ELSE IF query_db_rejects(query.v) THEN Text(OnlySelect)
    ELSE Connect("query_db", query)

\* list_tables and describe_table enter their try block at once
list_tables == Connect("list_tables", None)
describe_table(name) == Connect("describe_table", name)

\* the except clause of the three operations
db_error(e) == Text("[x] DB Error: " \o e)

\* the text each operation returns once fetchall() has delivered rows
rows_text(op, arg, rows) ==
    CASE op = "query_db" ->
           IF rows = <<>> THEN "No results" ELSE json_dumps(rows)
      [] op = "list_tables" ->
           IF rows = <<>> THEN "No tables"
           ELSE join("\n", [i \in 1..Len(rows) |-> "- " \o rows[i]])
      [] op = "describe_table" ->
           IF rows = <<>> THEN "Table '" \o PyStr(arg) \o "' not found."
           ELSE json_dumps(rows)

---------------------------------------------------------------------------
\* Method dispatcher

\* tool_result that drops the request id
tool_result_without_id(msg_id, text) ==
    [id |-> None, result |-> [content |-> <<format_text(text)>>]]

\* lines 186-191: the response of a tool call whose outcome is text
tool_result(msg_id, text) ==
    [id |-> msg_id, result |-> [content |-> <<format_text(text)>>]]

\* unknown_tool without the name of the tool
unknown_tool_nameless(tool) == Text("Unknown tool")

unknown_tool(tool) == Text("Unknown tool: " \o PyStr(tool))

\* notification_reply acknowledging with an empty result
notification_reply_acks(msg_id) == Return([id |-> msg_id, result |-> NoFields])

notification_reply(msg_id) == ReturnNone

\* unknown_method answering with the code of main's except clause
unknown_method_generic_code(msg_id, method) ==
    Return([id |-> msg_id,
            error |-> [code |-> SERVER_ERROR,
                       message |-> "Unknown method: " \o PyStr(method)]])

\* unknown_method falling off the end of handle without a response
unknown_method_silent(msg_id, method) == ReturnNone

unknown_method(msg_id, method) ==
    Return([id |-> msg_id,
            error |-> [code |-> METHOD_NOT_FOUND,
                       message |-> "Unknown method: " \o PyStr(method)]])

\* lines 170-184: which tool a tools/call runs
tool_call(params) ==
    IF ~HasGet(params) THEN Raise(AttributeError(params, "get"))
    ELSE LET tool == get(params, "name", None)
             args == get(params, "arguments", EmptyDict)
         IN  IF PyEq(tool, "query_database")
             THEN IF ~HasGet(args) THEN Raise(AttributeError(args, "get"))
                  ELSE query_db(get(args, "query", JStr("")))
             ELSE IF PyEq(tool, "list_tables") THEN list_tables
             ELSE IF PyEq(tool, "describe_table")
             THEN IF ~HasGet(args) THEN Raise(AttributeError(args, "get"))
                  ELSE describe_table(get(args, "table_name", JStr("")))
             ELSE unknown_tool(tool)

\* handle(msg) up to its return, its exception or its get_conn()
handle(m) ==
    IF ~HasGet(m) THEN Raise(AttributeError(m, "get"))
    ELSE LET method == get(m, "method", None)
             msg_id == get(m, "id", None)
             params == get(m, "params", EmptyDict)
         IN  IF PyEq(method, "initialize")
             THEN Return([id |-> msg_id, result |-> InitializeResult])
             ELSE IF PyEq(method, "tools/list")
             THEN Return([id |-> msg_id, result |-> [tools |-> ToolCatalog]])
             ELSE IF PyEq(method, "tools/call")
             THEN LET t == tool_call(params)
                  IN  IF t.k = "text"
                      THEN Return(tool_result(msg_id, t.text))
                      ELSE t
             ELSE IF PyEq(method, "notifications/initialized")
             THEN notification_reply(msg_id)
             ELSE unknown_method(msg_id, method)

\* the line handle writes to stderr before it dispatches
handle_log(m) == log("Received -> " \o PyStr(get(m, "method", None)))

---------------------------------------------------------------------------
\* Transport loop

\* lines 225-229: the except clause of main; msg.get is evaluated on
\* whatever msg is bound to, and an exception it raises leaves main
main_except(m, e, stdout) ==
    IF m.type = "unbound" \/ ~HasGet(m)
    THEN [pc |-> "crashed", out |-> stdout]
    ELSE [pc |-> "read",
          out |-> Append(stdout,
                         send([id |-> get(m, "id", None),
                               error |-> [code |-> SERVER_ERROR, message |-> e]]))]

\* main_deliver that prints the response line twice
main_deliver_twice(h, m, stdout) ==
    CASE h.k = "return" ->
           [pc |-> "read",
            out |-> IF truthy(h.resp)
                    THEN Append(Append(stdout, send(h.resp)), send(h.resp))
                    ELSE stdout]
      [] h.k = "none" -> [pc |-> "read", out |-> stdout]
      [] h.k = "raise" -> main_except(m, h.e, stdout)

\* lines 220-229: what main does with the outcome of json.loads + handle
main_deliver(h, m, stdout) ==
    CASE h.k = "return" ->
           [pc |-> "read",
            out |-> IF truthy(h.resp) THEN Append(stdout, send(h.resp))
                    ELSE stdout]
      [] h.k = "none" -> [pc |-> "read", out |-> stdout]
      [] h.k = "raise" -> main_except(m, h.e, stdout)

\* main_blank leaving the loop, as if the blank line were end-of-stream
main_blank_breaks(stdout) == [pc |-> "done", out |-> stdout]

\* lines 214-216: a line that is empty once stripped; continue
main_blank(stdout) == [pc |-> "read", out |-> stdout]

\* the rest of handle once the gateway operation has finished with g
handle_resume(g, msg_id) ==
    IF g.k = "text" THEN Return(tool_result(msg_id, g.text)) ELSE g

\* conn.close()
conn_close(open, c) == open \ {c}

NoFrame == [op |-> "none", arg |-> None, id |-> None, conn |-> 0]
NoRet == [op |-> "none", conn |-> 0, how |-> "none"]
NoLine == [kind |-> "none", value |-> None]

ExcOf(h) == IF h.k = "raise" THEN h.e ELSE "none"

Init ==
    /\ pc = "read"
    /\ msg = Unbound
    /\ out = <<>>
    /\ err = <<log("PostgreSQL MCP Server Running")>>
    /\ nread = 0
    /\ conns = {}
    /\ nconn = 0
    /\ frame = NoFrame
    /\ cyc = [line |-> NoLine, out0 |-> <<>>, nconn0 |-> 0, exc |-> "none",
              ret |-> NoRet, nonblank |-> 0]

\* One cycle of the loop on a line of input, up to the next readline() or
\* up to the get_conn() of a gateway operation
ReadLine ==
    /\ pc = "read"
    /\ nread < MaxLines
    /\ \E line \in Lines :
         LET parsed == line.kind = "json"
             m == IF parsed THEN line.value ELSE msg
             h == CASE line.kind = "blank" -> ReturnNone
                    [] line.kind = "garbage" -> Raise(JSONDecodeError)
                    [] line.kind = "json" -> handle(m)
             pending == h.k = "connect"
             r == IF line.kind = "blank" THEN main_blank(out)
                  ELSE IF pending THEN [pc |-> "get_conn", out |-> out]
                  ELSE main_deliver(h, m, out)
         IN  /\ msg' = m
             /\ pc' = r.pc
             /\ out' = r.out
             /\ err' = IF parsed /\ HasGet(m) THEN Append(err, handle_log(m))
                       ELSE err
             /\ frame' = IF pending
                         THEN [op |-> h.op, arg |-> h.arg,
                               id |-> get(m, "id", None), conn |-> 0]
                         ELSE NoFrame
             /\ cyc' = [line |-> line, out0 |-> out, nconn0 |-> nconn,
                        exc |-> ExcOf(h), ret |-> NoRet,
                        nonblank |-> IF line.kind = "blank" THEN cyc.nonblank
                                     ELSE cyc.nonblank + 1]
    /\ nread' = nread + 1
    /\ UNCHANGED <<conns, nconn>>

\* readline() returns the empty string: the loop breaks
ReadEOF ==
    /\ pc = "read"
    /\ pc' = "done"
    /\ UNCHANGED <<msg, out, err, nread, conns, nconn, frame, cyc>>

\* The gateway operation returns g to handle, handle to main
GatewayReturn(g, how) ==
    LET h == handle_resume(g, frame.id)
        r == main_deliver(h, msg, out)
    IN  /\ pc' = r.pc
        /\ out' = r.out
        /\ frame' = NoFrame
        /\ cyc' = [cyc EXCEPT !.exc = ExcOf(h),
                              !.ret = [op |-> frame.op, conn |-> frame.conn,
                                       how |-> how]]

\* conn = get_conn(): psycopg2.connect succeeds or raises
GetConn ==
    /\ pc = "get_conn"
    /\ \/ /\ nconn' = nconn + 1
          /\ conns' = conns \cup {nconn + 1}
          /\ frame' = [frame EXCEPT !.conn = nconn + 1]
          /\ pc' = "execute"
          /\ UNCHANGED <<out, cyc>>
       \/ /\ GatewayReturn(db_error(ConnectError), "error")
          /\ UNCHANGED <<conns, nconn>>
    /\ UNCHANGED <<msg, err, nread>>

\* cursor(), execute() and fetchall(): rows arrive and the connection is
\* closed, or an exception takes the except clause, which closes nothing
Execute ==
    /\ pc = "execute"
    /\ \/ \E rows \in DbRows :
            /\ conns' = conn_close(conns, frame.conn)
            /\ GatewayReturn(Text(rows_text(frame.op, frame.arg, rows)),
                             IF rows = <<>> THEN "sentinel" ELSE "rows")
       \/ /\ conns' = conns
          /\ GatewayReturn(db_error(ExecuteError), "error")
    /\ UNCHANGED <<msg, err, nread, nconn>>

Next == ReadLine \/ ReadEOF \/ GetConn \/ Execute

Spec == Init /\ [][Next]_vars

---------------------------------------------------------------------------
\* Vocabulary of the properties.  cyc records the line of the cycle in
\* progress (or just completed), stdout as it was when the line was read,
\* the exception that reached main, the gateway operation that returned, and
\* the number of non-blank lines read so far.

CycleDone == cyc.line.kind # "none" /\ pc \in {"read", "done", "crashed"}
InGateway == pc \in {"get_conn", "execute"}
Written == Len(out) - Len(cyc.out0)
Last == out[Len(out)]

IsRequest == cyc.line.kind = "json" /\ HasGet(cyc.line.value)
HasId == "id" \in DOMAIN cyc.line.value.v
Method == get(cyc.line.value, "method", None)
Params == get(cyc.line.value, "params", EmptyDict)
IsToolCall == IsRequest /\ PyEq(Method, "tools/call") /\ HasGet(Params)
Tool == get(Params, "name", None)
Arguments == get(Params, "arguments", EmptyDict)
ToolNames == {"query_database", "list_tables", "describe_table"}
NamesTool == IsToolCall /\ \E n \in ToolNames : PyEq(Tool, n)

IsResult(resp) == "result" \in DOMAIN resp /\ "error" \notin DOMAIN resp
IsError(resp) == "error" \in DOMAIN resp /\ "result" \notin DOMAIN resp
IsTextResult(resp) ==
    /\ IsResult(resp)
    /\ DOMAIN resp.result = {"content"}
    /\ Len(resp.result.content) = 1
    /\ resp.result.content[1].type = "text"

---------------------------------------------------------------------------
\* C1: a non-blank line that is not parseable JSON, at any position of the
\* stream (the first line included), makes main write exactly one error
\* response whose code is not the method-not-found code, and the loop keeps
\* running.
C1_UnparseableLineOneError ==
    cyc.line.kind = "garbage" =>
        /\ pc # "crashed"
        /\ Written = 1
        /\ IsError(Last)
        /\ Last.error.code # METHOD_NOT_FOUND

\* C2: an exception raised while dispatching a line that parsed is turned
\* by main into exactly one error response and the loop continues; the
\* process never terminates because of such a message.
C2_DispatchExceptionOneError ==
    (cyc.line.kind = "json" /\ cyc.exc # "none") =>
        /\ pc # "crashed"
        /\ Written = 1
        /\ IsError(Last)

C4_NotificationNoResponse ==
    (IsRequest /\ ~HasId) => out = cyc.out0

\* C5: a message whose method is notifications/initialized makes handle
\* return no response and main write nothing: stdout after the line equals
\* stdout before it.
C5_InitializedWritesNothing ==
    (IsRequest /\ PyEq(Method, "notifications/initialized")) =>
        /\ handle(cyc.line.value) = ReturnNone
        /\ cyc.exc = "none"
        /\ pc \in {"read", "done"}
        /\ out = cyc.out0

C5_Witness ==
    /\ IsRequest /\ PyEq(Method, "notifications/initialized")
    /\ HasId
    /\ pc = "read"
    /\ Len(out) = 1
    /\ out = cyc.out0

\* C6: whenever a gateway operation has returned (with rows, a sentinel or
\* a DB Error string), the connection it opened is no longer open.
C6_GatewayClosesConnection ==
    cyc.ret.op # "none" => cyc.ret.conn \notin conns

\* C7: in every reachable state at most one database connection is open;
\* the second call's connection is opened only after the first is closed.
C7_AtMostOneConnection ==
    Cardinality(conns) <= 1

\* C8: query_db returns the fixed rejection string and opens no connection
\* for every text whose trimmed, upper-cased form does not start with
\* SELECT (the empty string included); it opens a connection only for
\* texts that pass the test.
QueryArg == get(Arguments, "query", JStr(""))
QueryDbCalled ==
    /\ IsToolCall /\ PyEq(Tool, "query_database")
    /\ HasGet(Arguments) /\ QueryArg.type = "string"

\* text is some whitespace followed by the letters of SELECT in any case
SelectPrefixed(text) ==
    LET s == Chars[text]
        up(c) == IF c \in DOMAIN UpperMap THEN UpperMap[c] ELSE c
    IN  \E i \in 0..Len(s) :
            /\ \A j \in 1..i : s[j] \in Whitespace
            /\ Len(s) >= i + Len(SELECT)
            /\ \A k \in 1..Len(SELECT) : up(s[i + k]) = SELECT[k]

C8_NonSelectRejected ==
    /\ (QueryDbCalled /\ ~SelectPrefixed(QueryArg.v)) =>
           /\ pc \in {"read", "done"}
           /\ nconn = cyc.nconn0
           /\ cyc.ret.op = "none"
           /\ Written = 1
           /\ IsTextResult(Last)
           /\ Last.result.content[1].text = OnlySelect
    /\ (frame.op = "query_db" \/ cyc.ret.op = "query_db") =>
           (QueryDbCalled /\ SelectPrefixed(QueryArg.v))

C8_Witness ==
    /\ QueryDbCalled
    /\ QueryArg.v = "xSELECT"
    /\ pc = "read"
    /\ Last.result.content[1].text = OnlySelect
    /\ nconn = 0

\* C9: for every tools/call naming one of the three tools the response is a
\* result with a single text content block, never an error object, and no
\* exception from the database layer reaches handle or main.
C9_ToolFailuresAreResults ==
    (CycleDone /\ NamesTool /\ HasGet(Arguments)) =>
        /\ cyc.exc = "none"
        /\ Written = 1
        /\ IsTextResult(Last)

\* C10: a tools/call whose params.name is none of query_database,
\* list_tables, describe_table yields a result whose content is the single
\* text block "Unknown tool: <name>", and opens no database connection.
UnknownToolCall == IsToolCall /\ \A n \in ToolNames : ~PyEq(Tool, n)

C10_UnknownToolResult ==
    UnknownToolCall =>
        /\ pc \in {"read", "done"}
        /\ Written = 1
        /\ IsTextResult(Last)
        /\ Last.result.content[1].text =
               "Unknown tool: " \o (IF Tool.type = "string" THEN Tool.v ELSE "None")
        /\ nconn = cyc.nconn0
        /\ cyc.ret.op = "none"

C10_Witness ==
    /\ UnknownToolCall
    /\ PyEq(Tool, "bogus")
    /\ pc = "read"
    /\ Last.result.content[1].text = "Unknown tool: bogus"
    /\ conns = {}

\* C11: every parsed request whose method is none of initialize,
\* tools/list, tools/call, notifications/initialized gets an error response
\* with code -32601 and a message naming the method; the responses main
\* writes for parse and dispatch failures carry -32000, never -32601.
KnownMethods ==
    {"initialize", "tools/list", "tools/call", "notifications/initialized"}
UnknownMethodRequest == IsRequest /\ \A k \in KnownMethods : ~PyEq(Method, k)

C11_UnknownMethodCode ==
    /\ UnknownMethodRequest =>
           /\ pc \in {"read", "done"}
           /\ cyc.exc = "none"
           /\ Written = 1
           /\ IsError(Last)
           /\ Last.error.code = -32601
           /\ Last.error.message =
                  "Unknown method: "
                      \o (IF Method.type = "string" THEN Method.v ELSE "None")
    /\ (cyc.exc # "none" /\ Written = 1) =>
           /\ IsError(Last)
           /\ Last.error.code = -32000
           /\ Last.error.code # -32601

C11_Witness ==
    /\ UnknownMethodRequest
    /\ PyEq(Method, "resources/list")
    /\ Len(out) = 2
    /\ IsError(out[1])
    /\ out[1].error.code = -32000
    /\ out[2].error.code = -32601
    /\ out[2].error.message = "Unknown method: resources/list"

\* C12: every line written to stdout is an object with an id field and
\* exactly one of result and error, and its jsonrpc field is "2.0".
IsResponseLine(resp) ==
    /\ "id" \in DOMAIN resp
    /\ ("result" \in DOMAIN resp) # ("error" \in DOMAIN resp)
    /\ "jsonrpc" \in DOMAIN resp
    /\ resp.jsonrpc = "2.0"

C12_ResponseShape == \A i \in 1..Len(out) : IsResponseLine(out[i])

C12_Witness ==
    /\ Len(out) = 2
    /\ IsResult(out[1])
    /\ IsError(out[2])
    /\ out[2].jsonrpc = "2.0"

\* C13: a blank line is ignored: the step that reads it writes nothing,
\* leaves msg and the connections alone, and ends at the top of the loop
\* (not at loop exit), where the next line is read.
C13_BlankLineIgnored ==
    [][(nread' = nread + 1 /\ cyc'.line.kind = "blank") =>
           /\ pc' = "read"
           /\ out' = out
           /\ err' = err
           /\ msg' = msg
           /\ conns' = conns]_vars

\* a blank line came first and the line after it was read and answered
C13_Witness ==
    /\ nread = 2
    /\ cyc.nonblank = 1
    /\ cyc.line.kind = "json"
    /\ pc = "read"
    /\ Len(out) = 1

\* C14: the transport loop stops only in its terminal state, reached by
\* reading end-of-stream once every preceding line has been processed.
LoopRunning == pc \in {"read", "get_conn", "execute"}

C14_StopsOnlyAtEndOfStream ==
    ~LoopRunning => (pc = "done" /\ frame = NoFrame)

\* C15: the error response main writes for a parse failure or a dispatch
\* exception carries the id of the line being processed when that line has
\* one, and null otherwise; never the id of an earlier message.
IdOfLine == IF IsRequest /\ HasId THEN cyc.line.value.v["id"] ELSE None

C15_ErrorIdOfCurrentLine ==
    (cyc.exc # "none" /\ Written = 1) => Last.id = IdOfLine

\* C16: the output produced for a line is a function of that line (and of
\* the database's answer) alone: a line answered without the database gets
\* the same output lines after any earlier lines as it gets when it is the
\* first line of the stream.
OutputOfCycle == SubSeq(out, Len(cyc.out0) + 1, Len(out))

OutputAsFirstLine(line) ==
    LET h == CASE line.kind = "blank" -> ReturnNone
               [] line.kind = "garbage" -> Raise(JSONDecodeError)
               [] line.kind = "json" -> handle(line.value)
        m == IF line.kind = "json" THEN line.value ELSE Unbound
    IN  main_deliver(h, m, <<>>).out

C16_OutputIndependentOfHistory ==
    (CycleDone /\ cyc.ret.op = "none") =>
        OutputOfCycle = OutputAsFirstLine(cyc.line)

\* C17: a response produced by a successful dispatch carries the id of the
\* request that produced it and is appended after all earlier responses;
\* while the database call of a line is pending nothing is written and the
\* pending call belongs to that line, and no call is pending when the next
\* line is read.
C17_IdEchoedInArrivalOrder ==
    /\ (IsRequest /\ cyc.exc = "none" /\ Written >= 1) =>
           /\ Written = 1
           /\ Last.id = IdOfLine
           /\ SubSeq(out, 1, Len(out) - 1) = cyc.out0
    /\ InGateway => (out = cyc.out0 /\ IsRequest /\ frame.id = IdOfLine)
    /\ ~InGateway => frame = NoFrame
    /\ Len(out) <= nread

C17_Witness ==
    /\ pc = "read"
    /\ Len(out) = 2
    /\ IsTextResult(out[1])
    /\ out[1].id = JNum(1)
    /\ IsResult(out[2])
    /\ out[2].id = JNum(2)
    /\ cyc.exc = "none"

\* C18: a tools/call with no params, with params lacking arguments, or with
\* arguments lacking query / table_name never raises: it yields a normal
\* result response (for query_database without a query the non-SELECT
\* rejection text, with no connection opened), not a protocol error.
Fields == cyc.line.value.v
ParamsGiven == "params" \in DOMAIN Fields /\ HasGet(Fields["params"])
ArgsGiven ==
    /\ ParamsGiven
    /\ "arguments" \in DOMAIN Fields["params"].v
    /\ HasGet(Fields["params"].v["arguments"])
NameGiven(n) ==
    /\ ParamsGiven
    /\ "name" \in DOMAIN Fields["params"].v
    /\ PyEq(Fields["params"].v["name"], n)
ArgMissing(key) ==
    \/ ParamsGiven /\ "arguments" \notin DOMAIN Fields["params"].v
    \/ ArgsGiven /\ key \notin DOMAIN Fields["params"].v["arguments"].v

OptionalFieldAbsent ==
    /\ IsRequest
    /\ PyEq(Method, "tools/call")
    /\ \/ "params" \notin DOMAIN Fields
       \/ ParamsGiven /\ "arguments" \notin DOMAIN Fields["params"].v
       \/ NameGiven("query_database") /\ ArgMissing("query")
       \/ NameGiven("describe_table") /\ ArgMissing("table_name")

C18_AbsentFieldsTolerated ==
    OptionalFieldAbsent =>
        /\ cyc.exc = "none"
        /\ pc # "crashed"
        /\ CycleDone => (Written = 1 /\ IsTextResult(Last))
        /\ (NameGiven("query_database") /\ ArgMissing("query")) =>
               /\ CycleDone
               /\ Last.result.content[1].text = OnlySelect
               /\ nconn = cyc.nconn0
        /\ (NameGiven("describe_table") /\ ArgMissing("table_name")) =>
               (frame.op = "describe_table" => frame.arg = JStr(""))

C18_Witness ==
    /\ OptionalFieldAbsent
    /\ NameGiven("query_database")
    /\ ArgsGiven
    /\ pc = "read"
    /\ Last.result.content[1].text = OnlySelect

\* C19: each cycle of the loop writes at most one line to stdout, so the
\* number of output lines never exceeds the number of non-blank lines read
\* so far; the log lines (one at start, one per dispatched object) are on
\* stderr and add nothing to stdout.
C19_AtMostOneLinePerCycle ==
    /\ Written \in {0, 1}
    /\ cyc.line.kind = "blank" => Written = 0
    /\ Len(out) <= cyc.nonblank
    /\ cyc.nonblank <= nread
    /\ Len(err) >= 1
    /\ Len(err) <= 1 + cyc.nonblank
    /\ Len(out) <= cyc.nonblank - (IF IsRequest /\ Written = 0 THEN 1 ELSE 0)

\* two objects were logged, only one of them was answered
C19_Witness ==
    /\ pc = "read"
    /\ cyc.nonblank = 2
    /\ Len(err) = 3
    /\ Len(out) = 1
    /\ IsRequest
    /\ Written = 0

====
